---- MODULE Spec2Model ----
(***************************************************************************)
(* Peg-solitaire simulation (src/main.cpp): the board, the move finder,    *)
(* the move applier, the scorer and the simulation driver.                 *)
(***************************************************************************)
EXTENDS Integers, Sequences, FiniteSets, TLC

VARIABLES
    size,           \* template parameter of the board in use
    board,          \* Board<size>: board[row][column]
    pc,             \* position of the program / of the harness
    possible_move,  \* std::optional<Move> last returned by get_move
    offset,         \* Coordinate randomized_offset last passed to get_move
    move_history,   \* std::vector<Move> move_history
    score,          \* int score of run_simulation
    seed,           \* size_t seed
    gen,            \* state of the process-wide generator behind srand/rand
    draws,          \* number of rand() calls since the last srand()
    mode,           \* "find" or "simulate": the command main was given
    argv_seed,      \* the seed parsed from argv[2]; 0 when none was given
    n_iterations,   \* int n_iterations of main
    best_score,     \* int best_score of main
    best_seed,      \* size_t best_seed of main
    runs,           \* simulations started by this process
    launches,       \* processes started so far
    output,         \* what main has printed: progress reports, the winning seed
    results,        \* the finished simulations on record, of any process
    call            \* arguments and outcome of the last do_move call

vars == <<size, board, pc, possible_move, offset, move_history, score, seed,
          gen, draws, mode, argv_seed, n_iterations, best_score, best_seed,
          runs, launches, output, results, call>>

-----------------------------------------------------------------------------
(* Bounds of the model *)

\* board sizes 1, 3, ..., 2*MaxHalf+1 are instantiated by the unit harness
MaxHalf == 4
\* offsets 0..MaxOffset are passed to get_move by the unit harness
MaxOffset == 8
\* legal moves played in a row by the unit harness
MaxPlay == 1
\* the unit harness also plays the games of seeds 1..MaxGames move by move
MaxGames == 1
\* the unit harness calls do_move with an arbitrary move, and get_move with an
\* offset near SIZE_MAX, after at most this many legal moves
MaxAnyDepth == 0
\* time(nullptr) returns a value in 0..MaxTime
MaxTime == 0
\* time(nullptr) returns a value in 0..MaxBatchTime where the search is
\* followed across the end of a batch
MaxBatchTime == 4
\* seeds 0..MaxUserSeed can be typed on the command line
MaxUserSeed == 1
\* simulations of a search that are followed from its start or from the
\* start of a batch
MaxRuns == 2
\* processes started
MaxLaunches == 2
\* offsets SIZE_MAX-MaxWrap..SIZE_MAX are passed to get_move by the unit harness
MaxWrap == 1

-----------------------------------------------------------------------------
(* FieldState, Coordinate, Move *)

UNUSABLE == "UNUSABLE"
EMPTY == "EMPTY"
OCCUPIED == "OCCUPIED"
FieldState == {UNUSABLE, EMPTY, OCCUPIED}

Move(from_row, from_column, to_row, to_column) ==
    [from |-> <<from_row, from_column>>, to |-> <<to_row, to_column>>]

\* the empty std::optional<FieldState>
NoCell == "none"
\* std::optional<Move>: empty, or holding a move; aborted when the call that
\* was to return it failed an assert() and ended the process
None == [has_value |-> FALSE, value |-> Move(0, 0, 0, 0), aborted |-> FALSE]
Some(m) == [has_value |-> TRUE, value |-> m, aborted |-> FALSE]
Abort == [has_value |-> FALSE, value |-> Move(0, 0, 0, 0), aborted |-> TRUE]

INT_MAX == 2147483647
\* size_t has 64 bits. A size_t value v is written v when it is below 2^63
\* and v - 2^64, its two's-complement reading, from 2^63 on: SIZE_MAX is -1
SIZE_MAX == -1

\* no do_move call yet
NoCall == [called |-> FALSE, board |-> <<>>, move |-> Move(0, 0, 0, 0),
           aborted |-> FALSE]

-----------------------------------------------------------------------------
(* make_board *)

Index(n) == 0 .. (n - 1)

\* one assignment board[row][column] = value
SetCell(b, row, column, value) == [b EXCEPT ![row][column] = value]

\* the loop of lines 33-38: rows 0 and n-1, columns 0, 1, n-2, n-1
CornerRows(b, n) ==
    [row \in Index(n) |-> [column \in Index(n) |->
        IF row \in {0, n - 1} /\ column \in {0, 1, n - 2, n - 1}
        THEN UNUSABLE ELSE b[row][column]]]

\* EdgeRows with a fault: rows 1 and n-2 marked like rows 0 and n-1
EdgeRows_FullBlock(b, n) ==
    [row \in Index(n) |-> [column \in Index(n) |->
        IF row \in {1, n - 2} /\ column \in {0, 1, n - 2, n - 1}
        THEN UNUSABLE ELSE b[row][column]]]

\* the loop of lines 40-43: rows 1 and n-2, columns 0 and n-1
EdgeRows(b, n) ==
    [row \in Index(n) |-> [column \in Index(n) |->
        IF row \in {1, n - 2} /\ column \in {0, n - 1}
        THEN UNUSABLE ELSE b[row][column]]]

\* make_board with a fault: the center is left Occupied
make_board_NoCenter(n) ==
    LET filled == [row \in Index(n) |-> [column \in Index(n) |-> OCCUPIED]]
    IN  EdgeRows(CornerRows(filled, n), n)

make_board(n) ==
    LET filled == [row \in Index(n) |-> [column \in Index(n) |-> OCCUPIED]]
    IN  SetCell(EdgeRows(CornerRows(filled, n), n), n \div 2, n \div 2, EMPTY)

-----------------------------------------------------------------------------
(* get_from_board, get_move *)

get_from_board(b, n, row, column) ==
    IF row < 0 \/ column < 0 \/ row >= n \/ column >= n
    THEN NoCell
    ELSE b[row][column]

\* std::array<std::tuple<int, int>, 4> directions
directions == << <<0, 1>>, <<1, 0>>, <<-1, 0>>, <<0, -1>> >>

\* Offsetted with a fault: the offset is left out
Offsetted_NoRotation(i, off, n) == i % n

\* x * x modulo n
SquareMod(x, n) == (x * x) % n
\* 2^64 modulo n, by six squarings of 2
TwoTo64Mod(n) ==
    SquareMod(SquareMod(SquareMod(SquareMod(SquareMod(SquareMod(2 % n, n), n), n), n), n), n)

\* (row + row_offset) % size, all operands size_t: the sum wraps modulo 2^64
\* before the remainder is taken. i is below n
Offsetted(i, off, n) ==
    IF off >= 0 THEN ((i % n) + (off % n)) % n       \* no wrap: i + off < 2^64
    ELSE IF i + off >= 0 THEN (i + off) % n          \* wrapped to i + off - 2^64
    ELSE (((i + off) % n) + TwoTo64Mod(n)) % n       \* i + off below 2^64

\* TryDirections with a fault: the landing cell is only required to be on the board
RECURSIVE TryDirections_NoLandingCheck(_, _, _, _, _)
TryDirections_NoLandingCheck(b, n, orow, ocol, d) ==
    IF d > Len(directions) THEN None
    ELSE LET row_direction == directions[d][1]
             column_direction == directions[d][2]
             next_to == get_from_board(b, n, orow + row_direction,
                                       ocol + column_direction)
             target_row == orow + 2 * row_direction
             target_column == ocol + 2 * column_direction
             over_one == get_from_board(b, n, target_row, target_column)
         IN  IF next_to = NoCell \/ next_to # OCCUPIED
             THEN TryDirections_NoLandingCheck(b, n, orow, ocol, d + 1)
             ELSE IF over_one = NoCell
             THEN TryDirections_NoLandingCheck(b, n, orow, ocol, d + 1)
             ELSE Some(Move(orow, ocol, target_row, target_column))

\* TryDirections with a fault: the directions are tried from the last to the
\* first
RECURSIVE TryDirections_Reversed(_, _, _, _, _)
TryDirections_Reversed(b, n, orow, ocol, d) ==
    IF d > Len(directions) THEN None
    ELSE LET row_direction == directions[Len(directions) + 1 - d][1]
             column_direction == directions[Len(directions) + 1 - d][2]
             next_to == get_from_board(b, n, orow + row_direction,
                                       ocol + column_direction)
             target_row == orow + 2 * row_direction
             target_column == ocol + 2 * column_direction
             over_one == get_from_board(b, n, target_row, target_column)
         IN  IF next_to = NoCell \/ next_to # OCCUPIED
             THEN TryDirections_Reversed(b, n, orow, ocol, d + 1)
             ELSE IF over_one = NoCell \/ over_one # EMPTY
             THEN TryDirections_Reversed(b, n, orow, ocol, d + 1)
             ELSE Some(Move(orow, ocol, target_row, target_column))

\* the loop over directions for one occupied cell, starting at direction d
RECURSIVE TryDirections(_, _, _, _, _)
TryDirections(b, n, orow, ocol, d) ==
    IF d > Len(directions) THEN None
    ELSE LET row_direction == directions[d][1]
             column_direction == directions[d][2]
             next_to == get_from_board(b, n, orow + row_direction,
                                       ocol + column_direction)
             target_row == orow + 2 * row_direction
             target_column == ocol + 2 * column_direction
             over_one == get_from_board(b, n, target_row, target_column)
         IN  IF next_to = NoCell \/ next_to # OCCUPIED
             THEN TryDirections(b, n, orow, ocol, d + 1)
             ELSE IF over_one = NoCell \/ over_one # EMPTY
             THEN TryDirections(b, n, orow, ocol, d + 1)
             ELSE Some(Move(orow, ocol, target_row, target_column))

\* the inner loop of lines 103-124 for one row, from column on
RECURSIVE ScanColumns(_, _, _, _, _)
ScanColumns(b, n, off, row, column) ==
    IF column >= n THEN None
    ELSE LET offsetted_row == Offsetted(row, off[1], n)
             offsetted_column == Offsetted(column, off[2], n)
             cell == get_from_board(b, n, offsetted_row, offsetted_column)
         IN  IF cell = NoCell THEN Abort
             ELSE IF cell = OCCUPIED
             THEN LET found == TryDirections(b, n, offsetted_row,
                                             offsetted_column, 1)
                  IN  IF found.has_value THEN found
                      ELSE ScanColumns(b, n, off, row, column + 1)
             ELSE ScanColumns(b, n, off, row, column + 1)

\* the outer loop of lines 102-125, from row on
RECURSIVE ScanRows(_, _, _, _)
ScanRows(b, n, off, row) ==
    IF row >= n THEN None
    ELSE LET found == ScanColumns(b, n, off, row, 0)
         IN  IF found.has_value \/ found.aborted THEN found
             ELSE ScanRows(b, n, off, row + 1)

\* get_move with a fault: the outer loop starts at row 1
get_move_FromRowOne(b, n, off) == ScanRows(b, n, off, 1)

get_move(b, n, off) == ScanRows(b, n, off, 0)

-----------------------------------------------------------------------------
(* do_move, get_score *)

\* std::midpoint on size_t: halfway, rounded towards a
midpoint(a, b) == IF a <= b THEN a + (b - a) \div 2 ELSE a - (a - b) \div 2

\* do_move with a fault: the board is taken by value, the caller's board is untouched
do_move_ByValue(b, m) ==
    LET from_row == m.from[1]
        from_column == m.from[2]
        to_row == m.to[1]
        to_column == m.to[2]
        b1 == SetCell(b, from_row, from_column, EMPTY)
        b2 == SetCell(b1, to_row, to_column, OCCUPIED)
        over_row == midpoint(from_row, to_row)
        over_column == midpoint(from_column, to_column)
    IN  IF b[from_row][from_column] # OCCUPIED
        THEN [board |-> b, aborted |-> TRUE]
        ELSE IF b2[over_row][over_column] # OCCUPIED
        THEN [board |-> b, aborted |-> TRUE]
        ELSE [board |-> b, aborted |-> FALSE]

\* do_move with a fault: the jumped peg is not removed
do_move_KeepsOver(b, m) ==
    LET from_row == m.from[1]
        from_column == m.from[2]
        to_row == m.to[1]
        to_column == m.to[2]
        b1 == SetCell(b, from_row, from_column, EMPTY)
        b2 == SetCell(b1, to_row, to_column, OCCUPIED)
        over_row == midpoint(from_row, to_row)
        over_column == midpoint(from_column, to_column)
    IN  IF b[from_row][from_column] # OCCUPIED
        THEN [board |-> b, aborted |-> TRUE]
        ELSE IF b2[over_row][over_column] # OCCUPIED
        THEN [board |-> b2, aborted |-> TRUE]
        ELSE [board |-> b2, aborted |-> FALSE]

\* do_move with a fault: the destination is not set
do_move_NoDestination(b, m) ==
    LET from_row == m.from[1]
        from_column == m.from[2]
        to_row == m.to[1]
        to_column == m.to[2]
        b1 == SetCell(b, from_row, from_column, EMPTY)
        over_row == midpoint(from_row, to_row)
        over_column == midpoint(from_column, to_column)
        b3 == SetCell(b1, over_row, over_column, EMPTY)
    IN  IF b[from_row][from_column] # OCCUPIED
        THEN [board |-> b, aborted |-> TRUE]
        ELSE IF b1[over_row][over_column] # OCCUPIED
        THEN [board |-> b1, aborted |-> TRUE]
        ELSE [board |-> b3, aborted |-> FALSE]

\* the result is the board as the call leaves it and whether an assert failed
do_move(b, m) ==
    LET from_row == m.from[1]
        from_column == m.from[2]
        to_row == m.to[1]
        to_column == m.to[2]
        b1 == SetCell(b, from_row, from_column, EMPTY)
        b2 == SetCell(b1, to_row, to_column, OCCUPIED)
        over_row == midpoint(from_row, to_row)
        over_column == midpoint(from_column, to_column)
        b3 == SetCell(b2, over_row, over_column, EMPTY)
    IN  IF b[from_row][from_column] # OCCUPIED         \* assert, line 136
        THEN [board |-> b, aborted |-> TRUE]
        ELSE IF b1[from_row][from_column] # EMPTY      \* assert, line 140: tests from
        THEN [board |-> b1, aborted |-> TRUE]
        ELSE IF b2[over_row][over_column] # OCCUPIED   \* assert, line 143
        THEN [board |-> b2, aborted |-> TRUE]
        ELSE [board |-> b3, aborted |-> FALSE]

RECURSIVE SumSeq(_)
SumSeq(s) == IF s = <<>> THEN 0 ELSE Head(s) + SumSeq(Tail(s))

\* std::count_if over one row
CountRow(b, n, row) == Cardinality({column \in Index(n) : b[row][column] = OCCUPIED})

get_score(b, n) == SumSeq([i \in 1 .. n |-> CountRow(b, n, i - 1)])

-----------------------------------------------------------------------------------------------------------------------------------------------------
(* The generator behind srand and rand: random() of the C library the program *)
(* is linked with (glibc, TYPE_3): an additive feedback generator over 31     *)
(* words of 32 bits, word[k] = word[k-31] + word[k-3], whose draws are the    *)
(* upper 31 bits of the new word. The state is the last 31 words, oldest      *)
(* first; a word is written as its int32_t reading                            *)

RAND_MAX == 2147483647

\* the sum of two 32-bit words modulo 2^32
Add32(a, b) ==
    IF a >= 0 /\ b >= 0
    THEN IF a > RAND_MAX - b
         THEN ((a - RAND_MAX) + (b - RAND_MAX)) - 2
         ELSE a + b
    ELSE IF a < 0 /\ b < 0
    THEN IF a < ((-RAND_MAX) - 1) - b
         THEN ((a + RAND_MAX) + 1) + ((b + RAND_MAX) + 1)
         ELSE a + b
    ELSE a + b

\* (uint32_t) word >> 1
Shr1(x) == IF x >= 0 THEN x \div 2 ELSE ((x \div 2) + RAND_MAX) + 1

\* one step of the seeding recurrence of srandom_r: 16807 * word modulo 2^31 - 1
Schrage(word) ==
    LET hi == word \div 127773
        lo == word % 127773
        w == 16807 * lo - 2836 * hi
    IN  IF w < 0 THEN w + 2147483647 ELSE w

\* the 31 words that srandom_r writes from the seed in r[1]. The words so far
\* are computed once and held in w
RECURSIVE Seeded(_)
Seeded(r) ==
    CHOOSE all \in {IF Len(w) >= 31 THEN w
                    ELSE Seeded(Append(w, Schrage(w[Len(w)]))) : w \in {r}} : TRUE

\* generator state after one rand()
rand_next(g) == Append(Tail(g), Add32(g[1], g[29]))
\* the value that rand() returns from state g
rand(g) == Shr1(Add32(g[1], g[29]))

\* generator state after k more draws, and after c times 31 more draws. The
\* state reached so far is computed once and held in w
RECURSIVE Advance(_, _)
Advance(g, k) ==
    CHOOSE h \in {IF k > 0 THEN Advance(rand_next(w), k - 1) ELSE w : w \in {g}} : TRUE
RECURSIVE Discard(_, _)
Discard(g, c) ==
    CHOOSE h \in {IF c > 0 THEN Discard(Advance(w, 31), c - 1) ELSE w : w \in {g}} : TRUE

\* the state in which srandom_r leaves the generator for a seed s below 2^31:
\* seed 0 is taken as 1, the 31 words are written, the feedback starts at
\* word 3 and the first 310 draws are discarded
Seeding(s) ==
    LET r == Seeded(<<IF s = 0 THEN 1 ELSE s>>)
    IN  Discard(SubSeq(r, 4, 31) \o SubSeq(r, 1, 3), 10)

\* the state of the generator when the process starts: the table the library
\* is built with is the one that seed 1 gives
DefaultGen == Seeding(1)

\* srand with a fault: the call does not reset the generator
srand_NoReset(g, s) == g

\* generator state after srand(s) is called in state g
srand(g, s) == Seeding(s)

\* values of time(nullptr)
Times == 0 .. MaxTime
BatchTimes == 0 .. MaxBatchTime

\* push_back with a fault: the last entry is overwritten
push_back_Overwrite(v, x) == IF v = <<>> THEN <<x>> ELSE [v EXCEPT ![Len(v)] = x]

\* move_history.push_back(move)
push_back(v, x) == Append(v, x)

\* randomized_offset with a fault: the first draw is the column offset
randomized_offset_ColumnFirst(g) == <<rand(rand_next(g)), rand(g)>>

\* Coordinate randomized_offset{rx, ry} of two successive draws from state g
randomized_offset(g) == <<rand(g), rand(rand_next(g))>>

-----------------------------------------------------------------------------
(* main and run_simulation *)

board_size == 9
granularity == 100000

\* seeds typed after "simulate": small ones, and seeds of earlier simulations
UserSeeds == (0 .. MaxUserSeed) \cup {r.seed : r \in results}

\* a process before main runs: no board, the generator in its default state
ProcessStart ==
    /\ pc = "main"
    /\ mode = "none"
    /\ argv_seed = 0
    /\ size = 0
    /\ board = <<>>
    /\ possible_move = None
    /\ offset = <<0, 0>>
    /\ move_history = <<>>
    /\ score = 0
    /\ seed = 0
    /\ gen = DefaultGen
    /\ draws = 0
    /\ n_iterations = 0
    /\ best_score = INT_MAX
    /\ best_seed = 0
    /\ runs = 0
    /\ output = <<>>
    /\ call = NoCall

Init ==
    /\ ProcessStart
    /\ launches = 1
    /\ results = {}

\* main with argv = {"find"}, lines 242-244 and 253-258, the clock showing a
\* value of clock at line 243 and at line 258
MainFindAt(clock) ==
    /\ pc = "main"
    /\ \E t1 \in clock, t2 \in clock :
          /\ t1 <= t2
          /\ seed' = rand(srand(gen, t1))
          /\ gen' = srand(gen, t2)
    /\ draws' = 0
    /\ mode' = "find"
    /\ argv_seed' = 0
    /\ score' = 0
    /\ n_iterations' = 0
    /\ best_score' = INT_MAX
    /\ best_seed' = 0
    /\ pc' = "find"
    /\ UNCHANGED <<size, board, possible_move, offset, move_history, runs,
                   launches, output, results, call>>

MainFind == MainFindAt(Times)

\* main with argv = {"simulate", s}: lines 220-226 and 242-249
MainSimulate ==
    /\ pc = "main"
    /\ \E s \in UserSeeds :
          /\ argv_seed' = s
          /\ IF s = 0
             THEN \E t \in Times :
                     /\ seed' = rand(srand(gen, t))
                     /\ gen' = rand_next(srand(gen, t))
                     /\ draws' = 1
             ELSE /\ seed' = s
                  /\ gen' = srand(gen, s)
                  /\ draws' = 0
    /\ mode' = "simulate"
    /\ runs' = runs + 1
    /\ pc' = "call"
    /\ UNCHANGED <<size, board, possible_move, offset, move_history, score,
                   n_iterations, best_score, best_seed, launches, output,
                   results, call>>

\* the find loop, line 261 and the call of line 262, for at most cap runs
FindDrawUpTo(cap) ==
    /\ pc = "find"
    /\ runs < cap
    /\ seed' = rand(gen)
    /\ gen' = rand_next(gen)
    /\ draws' = draws + 1
    /\ runs' = runs + 1
    /\ pc' = "call"
    /\ UNCHANGED <<size, board, possible_move, offset, move_history, score,
                   mode, argv_seed, n_iterations, best_score, best_seed,
                   launches, output, results, call>>

FindDraw == FindDrawUpTo(MaxRuns)

\* run_simulation up to the first evaluation of the loop condition: lines 158-173
RunStart ==
    /\ pc = "call"
    /\ \E g0 \in {srand(gen, seed)} :
       \E found \in {get_move(make_board(board_size), board_size,
                              randomized_offset(g0))} :
       LET g2 == rand_next(rand_next(g0))
           fresh == make_board(board_size)
       IN  /\ gen' = g2
           /\ size' = board_size
           /\ board' = fresh
           /\ offset' = randomized_offset(g0)
           /\ possible_move' = found
           /\ pc' = IF found.aborted THEN "aborted" ELSE "loop"
    /\ draws' = 2
    /\ move_history' = <<>>
    /\ score' = board_size * board_size - 13
    /\ call' = NoCall
    /\ UNCHANGED <<seed, mode, argv_seed, n_iterations, best_score, best_seed,
                   runs, launches, output, results>>

\* decremented with a fault: the jumped peg and the moved peg are both counted
decremented_Twice(s) == s - 2

\* --score, line 190
decremented(s) == s - 1

\* one pass of the loop body: lines 174-191
RunStep ==
    /\ pc = "loop"
    /\ possible_move.has_value
    /\ \E r \in {do_move(board, possible_move.value)} :
       \E found \in {get_move(r.board, size, randomized_offset(gen))} :
       LET move == possible_move.value
           g2 == rand_next(rand_next(gen))
       IN  /\ board' = r.board
           /\ call' = [called |-> TRUE, board |-> board, move |-> move,
                       aborted |-> r.aborted]
           /\ IF r.aborted
              THEN /\ pc' = "aborted"
                   /\ UNCHANGED <<move_history, gen, draws, offset,
                                  possible_move, score>>
              ELSE /\ move_history' = push_back(move_history, move)
                   /\ gen' = g2
                   /\ draws' = draws + 2
                   /\ offset' = randomized_offset(gen)
                   /\ possible_move' = found
                   /\ score' = IF found.aborted THEN score ELSE decremented(score)
                   /\ pc' = IF found.aborted THEN "aborted" ELSE "loop"
    /\ UNCHANGED <<size, seed, mode, argv_seed, n_iterations, best_score,
                   best_seed, runs, launches, output, results>>

\* the loop ends and run_simulation returns score: lines 174 and 194-205
RunHalt ==
    /\ pc = "loop"
    /\ ~possible_move.has_value
    /\ pc' = "returned"
    /\ results' = results \cup {[seed |-> seed, moves |-> move_history,
                                 score |-> score, mode |-> mode,
                                 launch |-> launches, run |-> runs]}
    /\ output' = IF mode = "simulate"
                 THEN Append(output, [line |-> "run", seed |-> seed,
                                      score |-> score, moves |-> move_history])
                 ELSE output
    /\ UNCHANGED <<size, board, possible_move, offset, move_history, score,
                   seed, gen, draws, mode, argv_seed, n_iterations, best_score,
                   best_seed, runs, launches, call>>

\* improves with a fault: a run that only equals the best score replaces it
improves_OrEqual(s, best) == s <= best

\* score < best_score, line 264
improves(s, best) == s < best

\* winner with a fault: the tracked best seed is printed
winner_Best(sd, best) == best

\* the seed printed as the winning one, line 278, of the seed of the last run
\* and the tracked best seed
winner(sd, best) == sd

\* continues with a fault: the loop condition is inverted
continues_WhileOne(s) == s = 1

\* score != 1, the condition of the do-while loop, line 276
continues(s) == s # 1

\* the find loop after the call, lines 262-278, the clock showing a value of
\* clock at line 274
FindNextAt(clock) ==
    /\ pc = "returned"
    /\ mode = "find"
    /\ LET n == n_iterations + 1
           bs == IF improves(score, best_score) THEN score ELSE best_score
           bd == IF improves(score, best_score) THEN seed ELSE best_seed
           batch_end == (n % granularity) = 0
           report == [line |-> "best", runs |-> n, score |-> bs, seed |-> bd]
           printed == IF batch_end THEN Append(output, report) ELSE output
           kept == IF batch_end THEN 0 ELSE bd
       IN  /\ IF batch_end
              THEN /\ n_iterations' = 0
                   /\ best_score' = INT_MAX
                   /\ best_seed' = 0
                   /\ \E t \in clock : gen' = srand(gen, t)
                   /\ draws' = 0
              ELSE /\ n_iterations' = n
                   /\ best_score' = bs
                   /\ best_seed' = bd
                   /\ UNCHANGED <<gen, draws>>
           /\ IF continues(score)
              THEN /\ pc' = "find"
                   /\ output' = printed
              ELSE /\ pc' = "exit"
                   /\ output' = Append(printed, [line |-> "winning",
                                                 seed |-> winner(seed, kept)])
    /\ UNCHANGED <<size, board, possible_move, offset, move_history, score,
                   seed, mode, argv_seed, runs, launches, results, call>>

FindNext == FindNextAt(Times)

\* main returns after run_simulation(seed, true): lines 249-250
SimulateExit ==
    /\ pc = "returned"
    /\ mode = "simulate"
    /\ pc' = "exit"
    /\ UNCHANGED <<size, board, possible_move, offset, move_history, score,
                   seed, gen, draws, mode, argv_seed, n_iterations, best_score,
                   best_seed, runs, launches, output, results, call>>

\* a new process replaces the last one; the finished runs stay on record
Restart ==
    /\ launches' = launches + 1
    /\ pc' = "main"
    /\ mode' = "none"
    /\ argv_seed' = 0
    /\ size' = 0
    /\ board' = <<>>
    /\ possible_move' = None
    /\ offset' = <<0, 0>>
    /\ move_history' = <<>>
    /\ score' = 0
    /\ seed' = 0
    /\ gen' = DefaultGen
    /\ draws' = 0
    /\ n_iterations' = 0
    /\ best_score' = INT_MAX
    /\ best_seed' = 0
    /\ runs' = 0
    /\ output' = <<>>
    /\ call' = NoCall
    /\ UNCHANGED results

\* the program is started again, after the last process ended or, for a
\* search, was terminated
Launch ==
    /\ pc = "exit" \/ (pc = "find" /\ runs = MaxRuns)
    /\ launches < MaxLaunches
    /\ Restart

Next ==
    \/ MainFind
    \/ MainSimulate
    \/ FindDraw
    \/ RunStart
    \/ RunStep
    \/ RunHalt
    \/ FindNext
    \/ SimulateExit
    \/ Launch

Spec == Init /\ [][Next]_vars

\* the steps of one process; a process that can take a step takes one
ProcessNext ==
    \/ MainFind
    \/ MainSimulate
    \/ FindDraw
    \/ RunStart
    \/ RunStep
    \/ RunHalt
    \/ FindNext
    \/ SimulateExit

LiveSpec == Init /\ [][ProcessNext]_vars /\ WF_vars(ProcessNext)

-----------------------------------------------------------------------------------------------------------------------------------------------------
(* run_simulation as one evaluation: what the steps RunStart, RunStep and    *)
(* RunHalt leave behind when they are taken from the call to the return      *)

\* run_simulation(sd, false) up to the first evaluation of the loop
\* condition, lines 158-173, called with the generator in state g
RunEntry(g, sd) ==
    LET g0 == srand(g, sd)
        off == randomized_offset(g0)
        fresh == make_board(board_size)
        found == get_move(fresh, board_size, off)
    IN  [board |-> fresh, offset |-> off, possible_move |-> found,
         move_history |-> <<>>, score |-> board_size * board_size - 13,
         gen |-> rand_next(rand_next(g0)), draws |-> 2, call |-> NoCall,
         aborted |-> found.aborted]

\* one pass of the loop body, lines 174-191, on the locals w of the run
RunPass(w) ==
    LET move == w.possible_move.value
        r == do_move(w.board, move)
        off == randomized_offset(w.gen)
        found == get_move(r.board, board_size, off)
        made == [called |-> TRUE, board |-> w.board, move |-> move,
                 aborted |-> r.aborted]
    IN  IF r.aborted
        THEN [w EXCEPT !.board = r.board, !.call = made, !.aborted = TRUE]
        ELSE [board |-> r.board, offset |-> off, possible_move |-> found,
              move_history |-> push_back(w.move_history, move),
              score |-> IF found.aborted THEN w.score ELSE decremented(w.score),
              gen |-> rand_next(rand_next(w.gen)), draws |-> w.draws + 2,
              call |-> made, aborted |-> found.aborted]

\* up to k passes of while (possible_move), lines 174-191
RECURSIVE RunPasses(_, _)
RunPasses(st, k) ==
    CHOOSE h \in {IF k > 0 /\ w.possible_move.has_value /\ ~w.aborted
                  THEN RunPasses(RunPass(w), k - 1) ELSE w : w \in {st}} : TRUE

\* while (possible_move), lines 174-191, evaluated eight passes at a time
RECURSIVE RunLoop(_)
RunLoop(st) ==
    CHOOSE h \in {IF w.possible_move.has_value /\ ~w.aborted
                  THEN RunLoop(RunPasses(w, 8)) ELSE w : w \in {st}} : TRUE

\* run_simulation(sd, false), lines 157-206: its locals, the generator and the
\* score when it returns
run_simulation(g, sd) == RunLoop(RunEntry(g, sd))

-----------------------------------------------------------------------------
(* The search across the end of a batch. A batch is granularity = 100000     *)
(* runs, so besides its start the search is picked up after 99998 passes of  *)
(* its loop, in the state the program is in at that point: a `find` process  *)
(* started at clock value 3 has then last run seed 1688425341 and made its   *)
(* best run, of seed 1638598416, as run 14051; reseeded at clock value 4 at  *)
(* the end of this batch, it has 99998 passes later last run seed 245529257  *)
(* and made the best run of the second batch, of seed 107822073, as run      *)
(* 114604. No run up to these points returned 1.                             *)

\* passes of the find loop made in a batch where the search is picked up
PickedUp == 99998

\* the first run with the lowest score among the first 99998 of the first
\* batch, and among the first 99998 of the second batch
BestOfFirst == [seed |-> 1638598416, run |-> 14051]
BestOfSecond == [seed |-> 107822073, run |-> 114604]

\* a run of the search, of seed b.seed and number b.run, as it is kept on
\* record
Finished(b) ==
    LET r == run_simulation(DefaultGen, b.seed)
    IN  [seed |-> b.seed, moves |-> r.move_history, score |-> r.score,
         mode |-> "find", launch |-> 1, run |-> b.run]

\* the report of a batch whose best run was best, lines 269-270
Report(best) ==
    [line |-> "best", runs |-> granularity, score |-> best.score,
     seed |-> best.seed]

\* a `find` process before line 261 after done passes of its loop, the last
\* with seed last: best is the first run of the open batch with the lowest
\* score so far, printed the output so far; on record are the runs in record
SearchAfter(done, last, best, printed, record) ==
    /\ pc = "find"
    /\ mode = "find"
    /\ argv_seed = 0
    /\ \E r \in {run_simulation(DefaultGen, last)} :
          /\ size = board_size
          /\ board = r.board
          /\ possible_move = r.possible_move
          /\ offset = r.offset
          /\ move_history = r.move_history
          /\ score = r.score
          /\ gen = r.gen
          /\ draws = r.draws
          /\ call = r.call
    /\ seed = last
    /\ n_iterations = done % granularity
    /\ best_score = best.score
    /\ best_seed = best.seed
    /\ runs = done
    /\ launches = 1
    /\ output = printed
    /\ results = record

FirstBatchClosing ==
    \E b1 \in {Finished(BestOfFirst)} :
       SearchAfter(PickedUp, 1688425341, b1, <<>>, {b1})

SecondBatchClosing ==
    \E b1 \in {Finished(BestOfFirst)}, b2 \in {Finished(BestOfSecond)} :
       SearchAfter(granularity + PickedUp, 245529257, b2, <<Report(b1)>>,
                   {b1, b2})

\* a search from its start, or picked up before the end of a batch
BatchInit == Init \/ FirstBatchClosing \/ SecondBatchClosing

\* line 261 for the first MaxRuns runs of a batch and for its last runs
BatchDraw ==
    /\ n_iterations < MaxRuns \/ n_iterations >= PickedUp
    /\ FindDrawUpTo(runs + 1)

BatchFindNext == FindNextAt(BatchTimes)

BatchMainFind == MainFindAt(BatchTimes)

BatchNext ==
    \/ BatchMainFind
    \/ BatchDraw
    \/ RunStart
    \/ RunStep
    \/ RunHalt
    \/ BatchFindNext

SpecBatch == BatchInit /\ [][BatchNext]_vars

-----------------------------------------------------------------------------
(* Unit harness: the templated functions called with arbitrary arguments *)

\* the boards that do_move produces from the first of boards by the moves
RECURSIVE Replayed(_, _)
Replayed(boards, moves) ==
    IF Len(boards) > Len(moves) THEN boards
    ELSE Replayed(Append(boards, do_move(boards[Len(boards)],
                                         moves[Len(boards)]).board), moves)

\* the board after the moves are replayed on a fresh make_board<9>()
Replay(moves) == Replayed(<<make_board(board_size)>>, moves)[Len(moves) + 1]

OddSizes == {2 * h + 1 : h \in 0 .. MaxHalf}
\* small offsets, and the largest pair that rand() can draw
Offsets == ((0 .. MaxOffset) \X (0 .. MaxOffset)) \cup {<<RAND_MAX, RAND_MAX>>}
\* offsets at the top of the range of size_t
WrapOffsets == {<<SIZE_MAX - k, 0>> : k \in 0 .. MaxWrap}
                   \cup {<<0, SIZE_MAX - k>> : k \in 0 .. MaxWrap}
AnyMoves(n) == {Move(a, b, c, d) : a \in Index(n), b \in Index(n),
                                   c \in Index(n), d \in Index(n)}

\* the variables of main and run_simulation, which the unit harness leaves alone
driver_vars == <<score, seed, gen, draws, mode, argv_seed, n_iterations,
                 best_score, best_seed, runs, launches, output, results>>

DriverIdle ==
    /\ score = 0 /\ seed = 0 /\ gen = 0 /\ draws = 0 /\ mode = "unit"
    /\ argv_seed = 0
    /\ n_iterations = 0 /\ best_score = INT_MAX /\ best_seed = 0
    /\ runs = 0 /\ launches = 0 /\ output = <<>> /\ results = {}

\* Board<n> board = make_board<n>() for an odd n. make_board<1> writes outside
\* the array (board[0][1], board[0][size - 2], board[1][0], board[size - 2][0]
\* with size - 2 = SIZE_MAX): the call returns the board with its one cell as
\* the in-bounds writes leave it, or the process is ended at the first such write
UnitInit ==
    /\ size \in OddSizes
    /\ \/ board = make_board(size) /\ pc = "unit"
       \/ size = 1 /\ board = <<>> /\ pc = "aborted"
    /\ possible_move = None
    /\ offset = <<0, 0>>
    /\ move_history = <<>>
    /\ call = NoCall
    /\ DriverIdle

\* possible_move = get_move(board, off), for any offset off
UnitFind ==
    /\ pc = "unit"
    /\ \E off \in Offsets :
           /\ possible_move' = get_move(board, size, off)
           /\ offset' = off
    /\ pc' = "found"
    /\ UNCHANGED <<size, board, move_history, call>>
    /\ UNCHANGED driver_vars

\* possible_move = get_move(board, off), for an offset near SIZE_MAX
UnitScan ==
    /\ pc = "unit"
    /\ Len(move_history) <= MaxAnyDepth
    /\ \E off \in WrapOffsets :
           /\ possible_move' = get_move(board, size, off)
           /\ offset' = off
    /\ pc' = "scanned"
    /\ UNCHANGED <<size, board, move_history, call>>
    /\ UNCHANGED driver_vars

\* move = get_move(board, off); do_move(board, *move); history.push_back(*move)
UnitPlay ==
    /\ pc = "unit"
    /\ Len(move_history) < MaxPlay
    /\ \E off \in Offsets :
           LET found == get_move(board, size, off)
               r == do_move(board, found.value)
           IN  /\ found.has_value
               /\ board' = r.board
               /\ call' = [called |-> TRUE, board |-> board,
                           move |-> found.value, aborted |-> r.aborted]
               /\ pc' = IF r.aborted THEN "aborted" ELSE "unit"
               /\ move_history' = Append(move_history, found.value)
    /\ UNCHANGED <<size, possible_move, offset>>
    /\ UNCHANGED driver_vars

\* do_move(board, move) for the next move of a game: on make_board<9>() the
\* moves that run_simulation plays for a seed are applied one after the other
UnitGame ==
    /\ pc = "unit"
    /\ size = board_size
    /\ \E sd \in 1 .. MaxGames :
       \E moves \in {run_simulation(DefaultGen, sd).move_history} :
          /\ Len(move_history) < Len(moves)
          /\ SubSeq(moves, 1, Len(move_history)) = move_history
          /\ \E r \in {do_move(board, moves[Len(move_history) + 1])} :
                /\ board' = r.board
                /\ call' = [called |-> TRUE, board |-> board,
                            move |-> moves[Len(move_history) + 1],
                            aborted |-> r.aborted]
                /\ pc' = IF r.aborted THEN "aborted" ELSE "unit"
                /\ move_history' = Append(move_history,
                                          moves[Len(move_history) + 1])
    /\ UNCHANGED <<size, possible_move, offset>>
    /\ UNCHANGED driver_vars

\* do_move(board, m) for any move m whose coordinates are on the board, on
\* boards up to the size that run_simulation plays
UnitApply ==
    /\ pc = "unit"
    /\ size <= board_size
    /\ Len(move_history) <= MaxAnyDepth
    /\ \E m \in AnyMoves(size) :
           LET r == do_move(board, m)
           IN  /\ board' = r.board
               /\ call' = [called |-> TRUE, board |-> board, move |-> m,
                           aborted |-> r.aborted]
               /\ pc' = IF r.aborted THEN "aborted" ELSE "applied"
    /\ UNCHANGED <<size, possible_move, offset, move_history>>
    /\ UNCHANGED driver_vars

UnitNext ==
    \/ UnitFind
    \/ UnitScan
    \/ UnitPlay
    \/ UnitGame
    \/ UnitApply

SpecUnit == UnitInit /\ [][UnitNext]_vars

-----------------------------------------------------------------------------
(* Claims about make_board *)

CountCells(b, n, v) ==
    Cardinality({rc \in Index(n) \X Index(n) : b[rc[1]][rc[2]] = v})

\* the board is the one make_board returned
Fresh == pc = "unit" /\ move_history = <<>>

\* C7 (as stated): for every odd size N the fresh board has exactly one Empty
\* cell, at the center, exactly 12 Unusable cells and N*N-1-12 Occupied cells
C7_AllOddSizes ==
    Fresh =>
        /\ {rc \in Index(size) \X Index(size) : board[rc[1]][rc[2]] = EMPTY}
               = {<<size \div 2, size \div 2>>}
        /\ CountCells(board, size, UNUSABLE) = 12
        /\ CountCells(board, size, OCCUPIED) = size * size - 1 - 12

\* C7 (amended): the same counts for every odd size N >= 5
C7_CountsFromFive ==
    (Fresh /\ size >= 5) =>
        /\ {rc \in Index(size) \X Index(size) : board[rc[1]][rc[2]] = EMPTY}
               = {<<size \div 2, size \div 2>>}
        /\ CountCells(board, size, UNUSABLE) = 12
        /\ CountCells(board, size, OCCUPIED) = size * size - 1 - 12

C7_Witness == Fresh /\ size = 9 /\ CountCells(board, size, OCCUPIED) = 68

\* the 2x2 blocks at the four corners
CornerBlocks(n) == {0, 1, n - 2, n - 1} \X {0, 1, n - 2, n - 1}
\* the cells make_board marks: the 2x2 corner blocks without their inner cell
CornerCutouts(n) ==
    ({0, n - 1} \X {0, 1, n - 2, n - 1}) \cup ({1, n - 2} \X {0, n - 1})

\* C8 (as stated): every cell of the four 2x2 corner blocks is Unusable, the
\* center is Empty and every remaining cell is Occupied
C8_CornerBlocks ==
    Fresh =>
        \A rc \in Index(size) \X Index(size) :
            board[rc[1]][rc[2]] =
                IF rc \in CornerBlocks(size) THEN UNUSABLE
                ELSE IF rc = <<size \div 2, size \div 2>> THEN EMPTY
                ELSE OCCUPIED

\* C8 (amended): the Unusable cells are the three outer cells of each 2x2
\* corner block (rows 0 and N-1 in columns 0, 1, N-2, N-1; rows 1 and N-2 in
\* columns 0 and N-1); the center is Empty and every remaining cell, the inner
\* cell of each corner block included, is Occupied
C8_CornerCutouts ==
    Fresh =>
        \A rc \in Index(size) \X Index(size) :
            board[rc[1]][rc[2]] =
                IF rc = <<size \div 2, size \div 2>> THEN EMPTY
                ELSE IF rc \in CornerCutouts(size) THEN UNUSABLE
                ELSE OCCUPIED

C8_Witness ==
    /\ Fresh /\ size = 9
    /\ board[0][1] = UNUSABLE /\ board[1][0] = UNUSABLE /\ board[1][1] = OCCUPIED

-----------------------------------------------------------------------------
(* Legal jumps, stated from the rules of the game *)

Cells(n) == Index(n) \X Index(n)
OnBoard(rc, n) == rc[1] \in Index(n) /\ rc[2] \in Index(n)
Step(rc, d, k) == <<rc[1] + k * directions[d][1], rc[2] + k * directions[d][2]>>
At(b, rc) == b[rc[1]][rc[2]]

\* a peg at `from` can jump in direction d over a peg into an empty cell
LegalJump(b, n, from, d) ==
    /\ OnBoard(from, n) /\ At(b, from) = OCCUPIED
    /\ OnBoard(Step(from, d, 1), n) /\ At(b, Step(from, d, 1)) = OCCUPIED
    /\ OnBoard(Step(from, d, 2), n) /\ At(b, Step(from, d, 2)) = EMPTY

LegalJumps(b, n) ==
    {fd \in Cells(n) \X (1 .. 4) : LegalJump(b, n, fd[1], fd[2])}

\* the move is a legal jump on the board
LegalMove(b, n, m) ==
    \E d \in 1 .. 4 : m.to = Step(m.from, d, 2) /\ LegalJump(b, n, m.from, d)

\* place of a cell in the scan rotated by off: the cell is visited at
\* enumerated (row, column) with row + off[1] = cell row (mod n), same for columns
ScanPos(rc, off, n) == ((rc[1] - off[1]) % n) * n + ((rc[2] - off[2]) % n)

\* place of a jump in the order (scan position of its origin, direction index)
Rank(fd, off, n) == ScanPos(fd[1], off, n) * 4 + fd[2]

-----------------------------------------------------------------------------
(* Claims about do_move *)

\* the three preconditions of do_move on the arguments of the last call, the
\* midpoint being the one do_move computes
OriginOccupied == At(call.board, call.move.from) = OCCUPIED
DestinationEmpty == At(call.board, call.move.to) = EMPTY
MidCell == <<midpoint(call.move.from[1], call.move.to[1]),
             midpoint(call.move.from[2], call.move.to[2])>>
MidpointOccupied == At(call.board, MidCell) = OCCUPIED
TwoApart == \E d \in 1 .. 4 : call.move.to = Step(call.move.from, d, 2)

\* C2: whenever do_move is called with an origin that is not Occupied, a
\* destination that is not Empty or a midpoint that is not Occupied, the call
\* aborts
C2_AnyViolationAborts ==
    (call.called /\ ~(OriginOccupied /\ DestinationEmpty /\ MidpointOccupied))
        => call.aborted

\* C6: called with origin Occupied, destination Empty, midpoint Occupied and
\* the destination two cells from the origin along one axis, do_move completes,
\* sets origin and midpoint to Empty and the destination to Occupied, leaves
\* every other cell as it was, and get_score is one lower than before
C6_DoMoveEffect ==
    (call.called /\ TwoApart /\ OriginOccupied /\ DestinationEmpty /\ MidpointOccupied)
        => /\ ~call.aborted
           /\ \A rc \in Cells(size) :
                 At(board, rc) =
                     IF rc = call.move.from THEN EMPTY
                     ELSE IF rc = call.move.to THEN OCCUPIED
                     ELSE IF 2 * rc[1] = call.move.from[1] + call.move.to[1]
                             /\ 2 * rc[2] = call.move.from[2] + call.move.to[2]
                     THEN EMPTY
                     ELSE At(call.board, rc)
           /\ get_score(board, size) = get_score(call.board, size) - 1

\* a jump that is not the first one from the fresh board has been applied
C6_Witness ==
    /\ call.called /\ TwoApart /\ OriginOccupied /\ DestinationEmpty /\ MidpointOccupied
    /\ size = 9 /\ Len(move_history) = 2 /\ pc = "unit"
    /\ get_score(board, size) = 66

-----------------------------------------------------------------------------
(* Claims about get_move *)

\* C3: a move returned by get_move is a legal jump and no legal jump comes
\* before it in the order (scan position of the origin in the scan rotated by
\* the offset, then direction index); get_move never fails its assert; on the
\* fresh 9x9 board with offset (0,0) it returns (2,4) ~> (4,4)
C3_FirstInScanOrder ==
    (pc = "found") =>
        /\ ~possible_move.aborted
        /\ possible_move.has_value =>
              \E d \in 1 .. 4 :
                 /\ possible_move.value.to = Step(possible_move.value.from, d, 2)
                 /\ LegalJump(board, size, possible_move.value.from, d)
                 /\ \A fd \in LegalJumps(board, size) :
                       Rank(fd, offset, size)
                           >= Rank(<<possible_move.value.from, d>>, offset, size)
        /\ (size = 9 /\ move_history = <<>> /\ offset = <<0, 0>>)
              => possible_move = Some(Move(2, 4, 4, 4))

\* a returned move that is not the first legal jump of the unrotated scan,
\* from a cell with a second legal jump in a later direction, while a cell
\* later in the rotated scan has a legal jump in an earlier direction
C3_Witness ==
    /\ pc = "found" /\ possible_move.has_value /\ size = 9
    /\ \E fd \in LegalJumps(board, size) :
          Rank(fd, <<0, 0>>, size)
              < Rank(<<possible_move.value.from, 1>>, <<0, 0>>, size)
    /\ \E d \in 2 .. 3, d2 \in 1 .. 4 :
          /\ possible_move.value.to = Step(possible_move.value.from, d, 2)
          /\ d2 > d
          /\ LegalJump(board, size, possible_move.value.from, d2)
          /\ \E fd \in LegalJumps(board, size) :
                fd[1] # possible_move.value.from /\ fd[2] < d

-----------------------------------------------------------------------------
(* Claims about run_simulation *)

InitialPegs == board_size * board_size - 13

\* C1: at every evaluation of the loop condition the move get_move returned
\* is a legal jump on the current board (cells on the board, destination two
\* cells from the origin along one axis, origin and midpoint Occupied,
\* destination Empty), and no assert of get_move or do_move ever fails
C1_ReturnedMoveLegal ==
    /\ pc # "aborted"
    /\ ~call.aborted
    /\ ~possible_move.aborted
    /\ (pc = "loop" /\ possible_move.has_value) =>
          /\ OnBoard(possible_move.value.from, size)
          /\ OnBoard(possible_move.value.to, size)
          /\ LegalMove(board, size, possible_move.value)

C1_Witness ==
    /\ pc = "loop" /\ possible_move.has_value /\ call.called
    /\ Len(move_history) >= 30
    /\ LegalMove(board, size, possible_move.value)

\* C4: at every evaluation of the loop condition get_move has returned no
\* move exactly when the board has no legal jump, so a simulation has halted
\* only on a board without a legal jump
C4_NoMoveIffStuck ==
    /\ (pc = "loop") =>
          (~possible_move.has_value <=> LegalJumps(board, size) = {})
    /\ (pc \in {"returned", "exit"} /\ size = board_size) =>
          LegalJumps(board, size) = {}

C4_Witness ==
    /\ pc = "returned" /\ ~possible_move.has_value
    /\ LegalJumps(board, size) = {}
    /\ score > 1

\* C5: at every evaluation of the loop condition and at return, score equals
\* get_score(board), which is 9*9-13 less the number of moves applied
C5_ScoreAgrees ==
    (pc \in {"loop", "returned"}) =>
        /\ score = get_score(board, size)
        /\ score = InitialPegs - Len(move_history)

C5_Witness ==
    /\ pc = "returned" /\ Len(move_history) >= 40
    /\ score = get_score(board, size)

\* C9: the move history never holds more than N*N-1 moves, and every
\* simulation that is started returns
C9_Halts ==
    /\ [](Len(move_history) <= board_size * board_size - 1)
    /\ ((pc = "call") ~> (pc = "returned"))

C9_Witness ==
    /\ pc = "returned" /\ Len(move_history) >= 50 /\ Len(move_history) <= 80

\* C10: two finished simulations with the same seed have the same move
\* sequence and the same score, whichever process and call they were
C10_SameSeedSameRun ==
    \A r1 \in results, r2 \in results :
        r1.seed = r2.seed => (r1.moves = r2.moves /\ r1.score = r2.score)

\* a seed run by the search loop and again by "simulate"
C10_Witness ==
    \E r1 \in results, r2 \in results :
        /\ r1.seed = r2.seed
        /\ r1.mode = "find" /\ r2.mode = "simulate"
        /\ r1.moves = r2.moves /\ Len(r1.moves) > 0

-----------------------------------------------------------------------------
(* Claims about the scores of runs *)

\* pegs on the cells of one diagonal class, (row + column) mod 3 = j
ClassPegs(b, n, j) ==
    Cardinality({rc \in Cells(n) : At(b, rc) = OCCUPIED /\ (rc[1] + rc[2]) % 3 = j})

\* a jump takes its three cells from the three diagonal classes, so it flips
\* the parity of each class: the three classes of the 9x9 board start at
\* 22, 22 and 24 pegs and keep the parity of the number of moves played
ClassParity ==
    (pc \in {"loop", "returned"}) =>
        \A j \in 0 .. 2 :
           ClassPegs(board, size, j) % 2 = Len(move_history) % 2

\* hence a run never ends with one peg (67 moves would leave three odd classes)
ScoreNeverOne == (pc \in {"loop", "returned"}) => score >= 2

\* C13: every run_simulation returns a score of at least 1 and at least one
\* peg is on the board in every state of a run, so the best score that the
\* search tracks or reports is never below 1
C13_ScoreAtLeastOne ==
    /\ (pc \in {"loop", "returned"}) =>
          /\ score >= 1
          /\ CountCells(board, size, OCCUPIED) >= 1
    /\ \A r \in results : r.score >= 1
    /\ best_score >= 1
    /\ \A i \in 1 .. Len(output) :
          output[i].line = "best" => output[i].score >= 1

\* the search has reported the best score of a batch and tracks the score of
\* a finished run of the next batch
C13_Witness ==
    /\ pc = "find" /\ runs >= 1
    /\ best_score = score
    /\ best_score < InitialPegs
    /\ \E r \in results :
          r.launch = launches /\ r.run = runs /\ r.score = best_score
    /\ Len(output) >= 1
    /\ output[1].line = "best" /\ output[1].score < InitialPegs

-----------------------------------------------------------------------------
(* Claims about the generator *)

\* C14: a simulation owns its generator stream, so no step of run_simulation
\* (from the call to the return of the score) changes the state of the
\* generator from which the search draws the seed of the next run
C14_RunLeavesGenerator ==
    [][(pc \in {"call", "loop"}) => gen' = gen]_vars

\* the successive generator states: states extended until it holds the
\* state j draws after its first one
RECURSIVE GenStates(_, _)
GenStates(states, j) ==
    IF Len(states) > j THEN states
    ELSE GenStates(Append(states, rand_next(states[Len(states)])), j)

\* draw number j (from 0) of a stream, given its successive generator states
Draw(states, j) == rand(states[j + 1])

\* C16: after srand(seed) a run draws twice per get_move call and at no other
\* place: with k moves applied it has consumed 2*(k+1) draws, and the scan
\* number i (here the latest one, i = k) got draw 2i as its row offset and
\* draw 2i+1 as its column offset
C16_TwoDrawsPerScan ==
    (pc \in {"loop", "returned"}) =>
        LET k == Len(move_history)
            stream == GenStates(<<srand(0, seed)>>, 2 * (k + 1))
        IN  /\ draws = 2 * (k + 1)
            /\ gen = stream[2 * (k + 1) + 1]
            /\ offset = <<Draw(stream, 2 * k), Draw(stream, 2 * k + 1)>>

\* a run that applied moves, whose latest scan drew two different offsets
C16_Witness ==
    /\ pc = "returned"
    /\ Len(move_history) >= 10
    /\ offset[1] # offset[2]
    /\ offset[1] % size # offset[2] % size

-----------------------------------------------------------------------------
(* Claims about the board and the history of a run *)

\* the cells that make_board marks Unusable
Unusable(n) ==
    LET fresh == make_board(n) IN {rc \in Cells(n) : At(fresh, rc) = UNUSABLE}

\* origin, jumped cell and destination of a move
MoveCells(m) ==
    {m.from, <<midpoint(m.from[1], m.to[1]), midpoint(m.from[2], m.to[2])>>, m.to}

\* C18: after any sequence of moves of a simulation the Unusable cells of the
\* board are exactly those that make_board produced (none became Empty or
\* Occupied, no playable cell became Unusable), and no move played has an
\* Unusable origin, midpoint or destination
C18_UnusableFixed ==
    (pc \in {"loop", "returned"}) =>
        LET unusable == Unusable(size)
        IN  /\ {rc \in Cells(size) : At(board, rc) = UNUSABLE} = unusable
            /\ \A i \in 1 .. Len(move_history) :
                  MoveCells(move_history[i]) \cap unusable = {}
            /\ possible_move.has_value =>
                  MoveCells(possible_move.value) \cap unusable = {}

\* a finished run that played a move into the top row, next to Unusable cells
C18_Witness ==
    /\ pc = "returned"
    /\ Len(move_history) >= 40
    /\ \E i \in 1 .. Len(move_history) :
          /\ move_history[i].to[1] = 0
          /\ \E d \in 1 .. 4 : Step(move_history[i].to, d, 1) \in CornerCutouts(size)

\* C19: the move history is an append-only, faithful record: whenever the
\* loop condition is evaluated and at halt, recorded moves + score is the
\* initial peg count 9*9-13 and replaying the recorded moves with do_move on
\* a fresh board gives the current board; a step of the run keeps every
\* earlier entry and removes none
C19_HistoryFaithful ==
    /\ []((pc \in {"loop", "returned"}) =>
             /\ Len(move_history) + score = InitialPegs
             /\ Replay(move_history) = board)
    /\ [][(pc = "loop") =>
             /\ Len(move_history') >= Len(move_history)
             /\ SubSeq(move_history', 1, Len(move_history)) = move_history]_vars

\* a finished run with a long history
C19_Witness ==
    /\ pc = "returned"
    /\ Len(move_history) >= 40
    /\ board # make_board(board_size)
    /\ score = CountCells(board, size, OCCUPIED)

-----------------------------------------------------------------------------
(* Claims about the rotated scan *)

\* the cells that the scan of get_move visits for an offset
Visited(off, n) ==
    {<<Offsetted(rc[1], off[1], n), Offsetted(rc[2], off[2], n)>> : rc \in Cells(n)}

\* C15: for every offset pair of the offset type the scan of get_move is a
\* toroidal rotation: the size*size enumerated (row, column) are sent to cells
\* of the board, and every cell of the board is visited exactly once
C15_ToroidalRotation ==
    (pc \in {"found", "scanned"}) =>
        /\ Visited(offset, size) \subseteq Cells(size)
        /\ Cardinality(Visited(offset, size)) = size * size

-----------------------------------------------------------------------------
(* Claims about the best-seed search *)

\* the runs on record of batch number i of this search: the runs that were
\* followed from call to return and, where the search was picked up, the
\* first run with the lowest score of the runs before
BatchOf(i, g) ==
    {r \in results : /\ r.launch = launches /\ r.mode = "find"
                     /\ (i - 1) * g < r.run /\ r.run <= i * g}

\* the lowest score among runs, and the first run that returned it
LowestScore(rs) == CHOOSE v \in {r.score : r \in rs} : \A r \in rs : v <= r.score
FirstLowest(rs) ==
    CHOOSE r \in rs : /\ r.score = LowestScore(rs)
                      /\ \A q \in rs : q.score = LowestScore(rs) => r.run <= q.run

\* C17: progress report number i, printed at the end of batch i of granularity
\* runs, gives the lowest score returned by the runs of batch i only and the
\* seed of the first run of batch i that returned it; once a report is printed
\* the run counter, the best score and the best seed are reset, and within a
\* batch they track the runs of that batch only
C17_BatchReport ==
    (mode = "find") =>
        /\ \A i \in 1 .. Len(output) :
              output[i].line = "best" =>
                 /\ BatchOf(i, granularity) # {}
                 /\ output[i].runs = granularity
                 /\ output[i].score = LowestScore(BatchOf(i, granularity))
                 /\ output[i].seed = FirstLowest(BatchOf(i, granularity)).seed
        /\ (pc = "find") =>
              LET open == BatchOf(runs \div granularity + 1, granularity)
              IN  /\ n_iterations = runs % granularity
                  /\ Len(output) = runs \div granularity
                  /\ IF open = {}
                     THEN best_score = INT_MAX /\ best_seed = 0
                     ELSE /\ best_score = LowestScore(open)
                          /\ best_seed = FirstLowest(open).seed

\* two reports were printed, the second with a higher score than the first,
\* the best of a batch was not its last run, and the tracking is reset
C17_Witness ==
    /\ mode = "find" /\ pc = "find"
    /\ Len(output) = 2
    /\ output[2].runs = granularity
    /\ output[2].score > output[1].score
    /\ output[2].seed # output[1].seed
    /\ \E i \in 1 .. 2 :
          FirstLowest(BatchOf(i, granularity)).run < i * granularity
    /\ n_iterations = 0
    /\ best_score = INT_MAX

\* the runs of the search of this process that returned 1
Wins == {r \in results : r.launch = launches /\ r.mode = "find" /\ r.score = 1}

\* C12: the search stops the moment a run scores exactly 1: no simulation is
\* started after the first run that returned 1, the search does not stop
\* after a run that returned another score, and the seed printed as winning
\* is the seed passed to the run that returned 1, also when that run ended a
\* batch and the tracking was reset
C12_StopsAtFirstWin ==
    (mode = "find") =>
        /\ \A r \in Wins :
              /\ pc \in {"returned", "exit"}
              /\ r.run = runs
              /\ \A q \in results : q.launch = launches => q.run <= r.run
        /\ (pc = "exit") =>
              /\ score = 1
              /\ \E r \in Wins :
                    /\ r.run = runs
                    /\ output[Len(output)].line = "winning"
                    /\ output[Len(output)].seed = r.seed
        /\ (pc # "exit") =>
              \A i \in 1 .. Len(output) : output[i].line # "winning"
        /\ (pc = "find" /\ runs > 0) => score # 1

\* the search went on after a run that returned a score other than 1: it has
\* drawn the seed of its next run and printed no winning seed
C12_Witness ==
    /\ mode = "find" /\ pc = "call"
    /\ runs >= 2
    /\ score > 1
    /\ \E r \in results :
          /\ r.launch = launches /\ r.mode = "find"
          /\ r.run = runs - 1 /\ r.score = score /\ r.seed # seed
    /\ \A i \in 1 .. Len(output) : output[i].line # "winning"

====
